---- MODULE Spec2Model ----
(***************************************************************************)
(* Google Workspace -> Beyond Identity synchronisation (gwbisync.py).      *)
(*                                                                         *)
(* One run of main() is a pass.  The model keeps the two remote systems    *)
(* (the Beyond Identity SCIM tenant, the Google Workspace directory), the  *)
(* locals of main() and, as history, the remote calls a pass issues.       *)
(* Every function of the script that talks to a remote system is an        *)
(* operator from a state record to a state record; the actions step        *)
(* main() through its loops, one loop iteration per action.                *)
(***************************************************************************)
EXTENDS Integers, Sequences, FiniteSets, TLC

(***************************************************************************)
(* Bounds of the exploration.                                              *)
(***************************************************************************)
MaxPasses == 2
MaxFaults == 1

(***************************************************************************)
(* Configuration (config.py) and the strings the model draws from.         *)
(***************************************************************************)
GWS_GROUPS == <<"eng@corp", "ops@corp">>
BI_GROUP_PREFIX == "GoogleSCIM_"
GWS_DOMAIN_NAME == "corp"

None == "None"
TEST_USER_ID == "test-user-id"
TEST_GROUP_ID == "test-group-id"

\* Google Workspace user ids: 21 decimal digits.
SourceIds == {"100000000000000000001", "100000000000000000002"}
\* Other externalId values found in the tenant: 20 digits, and not numeric.
ShortId == "10000000000000000003"
ForeignId == "okta-00u1"
DigitStrings == SourceIds \cup {ShortId}
SourceOrder == <<"100000000000000000001", "100000000000000000002">>

\* Group e-mail part of every display name "GoogleSCIM_<rest>" in the model.
PrefixedRests == {"eng@corp", "ops@corp", "old@corp"}
StaffGroup == "Staff"

BiUserIdPool == <<"bi-1", "bi-2", "bi-3", "bi-4", "bi-5", "bi-6", "bi-7", "bi-8">>
BiGroupIdPool == <<"grp-1", "grp-2", "grp-3", "grp-4", "grp-5", "grp-6", "grp-7">>

ScimIdLen == 21

\* str.isdigit() and str.startswith() on the strings of the model.
isdigit(e) == e \in DigitStrings
startswith_anything(name, prefix) == TRUE
startswith(name, prefix) == \E rest \in PrefixedRests : name = prefix \o rest

\* Line 541: external_id.isdigit() and len(external_id) == 21
is_scim_format(external_id) == isdigit(external_id) /\ Len(external_id) = ScimIdLen

primaryEmail(user_id) ==
    IF user_id = "100000000000000000001" THEN "ann@corp" ELSE "bob@corp"

BYID_GROUP == "BYID_Enrolled@" \o GWS_DOMAIN_NAME

(***************************************************************************)
(* The log of remote calls and of decisions (the log sites of the script). *)
(***************************************************************************)
Call(op, user, group, ok) == [op |-> op, user |-> user, group |-> group, ok |-> ok]
Log(s, c) == [s EXCEPT !.calls = Append(@, c)]
Decide(s, kind, subject) == [s EXCEPT !.decisions = Append(@, <<kind, subject>>)]

MutatingOps == {"createUser", "updateUser", "suspendUser", "createGroup",
                "addMember", "removeMember", "byidCreate", "byidInsert", "byidDelete"}

\* A lookup answered with a status other than 200 (lines 123, 159): a server
\* error, or 401 Unauthorized, which the script does not tell apart.
Not200 == {"groupLookupStatus", "userLookupStatus", "unauthorized"}

FirstFree(pool, used) ==
    LET free == SelectSeq(pool, LAMBDA i : i \notin used) IN free[1]

(***************************************************************************)
(* get_group_members: the member ids of a Google group, all pages; any     *)
(* exception (on any page) gives the empty list.                           *)
(***************************************************************************)
get_group_members(s, e, group_email, f) ==
    IF f = "membersList"
    THEN [s |-> Log(s, Call("listMembers", "", group_email, FALSE)), ret |-> <<>>]
    ELSE [s |-> Log(s, Call("listMembers", "", group_email, TRUE)),
          ret |-> SelectSeq(SourceOrder, LAMBDA u : u \in e.gwsMembers[group_email])]

(***************************************************************************)
(* get_user_details: in TEST_MODE a made-up user, else users().get.        *)
(***************************************************************************)
\* Python's None as the result of get_user_details.
NoUserData == [id |-> None, primaryEmail |-> None, suspended |-> FALSE]

get_user_details(s, e, user_id, f) ==
    IF e.TEST_MODE
    THEN [s |-> s,
          ret |-> [id |-> user_id,
                   primaryEmail |-> "test_" \o user_id \o "@example.com",
                   suspended |-> FALSE]]
    ELSE IF f = "userDetails"
    THEN [s |-> Log(s, Call("getUserDetails", user_id, "", FALSE)), ret |-> NoUserData]
    ELSE [s |-> Log(s, Call("getUserDetails", user_id, "", TRUE)),
          ret |-> [id |-> user_id,
                   primaryEmail |-> primaryEmail(user_id),
                   suspended |-> user_id \in e.suspended]]

(***************************************************************************)
(* create_bi_group: look the group up by display name, else create it.     *)
(***************************************************************************)
GroupsNamed(s, name) ==
    SelectSeq(BiGroupIdPool,
              LAMBDA g : g \in DOMAIN s.biGroups /\ s.biGroups[g].displayName = name)

create_bi_group(s, e, group_email, f) ==
    LET name == BI_GROUP_PREFIX \o group_email
        groups == GroupsNamed(s, name)
        s1 == Log(s, Call("findGroup", "", name, f \notin {"groupLookupExc"} \cup Not200))
    IN  IF f = "groupLookupExc" THEN [s |-> s1, ret |-> None]
        ELSE IF f \notin Not200 /\ groups # <<>>
        THEN [s |-> Decide(s1, "group-exists", group_email), ret |-> groups[1]]
        ELSE IF e.TEST_MODE
        THEN [s |-> Decide(s1, "group-create", group_email), ret |-> TEST_GROUP_ID]
        ELSE IF f = "groupCreate"
        THEN [s |-> Log(Decide(s1, "group-create", group_email),
                        Call("createGroup", "", name, FALSE)),
              ret |-> None]
        ELSE LET group_id == FirstFree(BiGroupIdPool, DOMAIN s.biGroups)
                 s2 == Log(Decide(s1, "group-create", group_email),
                           Call("createGroup", "", group_id, TRUE))
             IN  [s |-> [s2 EXCEPT !.biGroups =
                             @ @@ (group_id :> [displayName |-> name, members |-> {}])],
                  ret |-> group_id]

(***************************************************************************)
(* create_or_update_bi_user: look the user up by externalId; update by a   *)
(* full replace when found, else create.                                   *)
(***************************************************************************)
NoUsersFound(s, id) == <<>>

UsersWithExternalId(s, id) ==
    SelectSeq(BiUserIdPool,
              LAMBDA u : u \in DOMAIN s.biUsers /\ s.biUsers[u].externalId = id)

CreatedActive(user_data) == TRUE

create_or_update_bi_user(s, e, user_data, f) ==
    LET users == UsersWithExternalId(s, user_data.id)
        s1 == Log(s, Call("findUser", user_data.id, "", f \notin {"userLookupExc"} \cup Not200))
    IN  IF f = "userLookupExc" THEN [s |-> s1, ret |-> None]
        ELSE IF f \notin Not200 /\ users # <<>>
        THEN LET user_id == users[1]
                 s2 == Decide(s1, "update", user_data.id)
             IN  IF e.TEST_MODE THEN [s |-> s2, ret |-> user_id]
                 ELSE IF f = "userWrite"
                 THEN [s |-> Log(s2, Call("updateUser", user_id, "", FALSE)), ret |-> None]
                 ELSE [s |-> [Log(s2, Call("updateUser", user_id, "", TRUE))
                                EXCEPT !.biUsers[user_id] =
                                    [externalId |-> user_data.id,
                                     userName |-> user_data.primaryEmail,
                                     active |-> ~user_data.suspended]],
                       ret |-> user_id]
        ELSE LET s2 == Decide(s1, "create", user_data.id)
             IN  IF e.TEST_MODE THEN [s |-> s2, ret |-> TEST_USER_ID]
                 ELSE IF f = "userWrite"
                 THEN [s |-> Log(s2, Call("createUser", user_data.id, "", FALSE)), ret |-> None]
                 ELSE LET user_id == FirstFree(BiUserIdPool, DOMAIN s.biUsers)
                      IN  [s |-> [Log(s2, Call("createUser", user_id, "", TRUE))
                                    EXCEPT !.biUsers = @ @@ (user_id :>
                                        [externalId |-> user_data.id,
                                         userName |-> user_data.primaryEmail,
                                         active |-> CreatedActive(user_data)])],
                           ret |-> user_id]

(***************************************************************************)
(* add_user_to_group / remove_user_from_group: read the group, then        *)
(* replace it with the member list changed.                                *)
(***************************************************************************)
NeverAlreadyMember(s, user_id, group_id) == FALSE

\* Line 231: any(member['value'] == user_id for member in members)
AlreadyMember(s, user_id, group_id) == user_id \in s.biGroups[group_id].members

add_user_to_group(s, e, user_id, group_id, f) ==
    IF f = "groupGet" \/ group_id \notin DOMAIN s.biGroups
    THEN Log(s, Call("getGroup", user_id, group_id, FALSE))
    ELSE LET s1 == Log(s, Call("getGroup", user_id, group_id, TRUE))
         IN  IF AlreadyMember(s, user_id, group_id) THEN s1
             ELSE IF e.TEST_MODE THEN s1
             ELSE IF f = "groupPut"
             THEN Log(s1, Call("addMember", user_id, group_id, FALSE))
             ELSE [Log(s1, Call("addMember", user_id, group_id, TRUE))
                     EXCEPT !.biGroups[group_id].members = @ \cup {user_id}]

remove_user_clearing_group(s, e, user_id, group_id, f) ==
    IF group_id \notin DOMAIN s.biGroups THEN s
    ELSE [Log(Log(s, Call("getGroup", user_id, group_id, TRUE)),
              Call("removeMember", user_id, group_id, TRUE))
            EXCEPT !.biGroups[group_id].members = {}]

remove_user_from_group(s, e, user_id, group_id, f) ==
    IF f = "groupGet" \/ group_id \notin DOMAIN s.biGroups
    THEN Log(s, Call("getGroup", user_id, group_id, FALSE))
    ELSE LET s1 == Log(s, Call("getGroup", user_id, group_id, TRUE))
         IN  IF user_id \notin s.biGroups[group_id].members THEN s1
             ELSE IF e.TEST_MODE THEN s1
             ELSE IF f = "groupPut"
             THEN Log(s1, Call("removeMember", user_id, group_id, FALSE))
             ELSE [Log(s1, Call("removeMember", user_id, group_id, TRUE))
                     EXCEPT !.biGroups[group_id].members = @ \ {user_id}]

\* The value each of the two returns (True for success).
add_user_to_group_returns(s, e, user_id, group_id, f) ==
    IF f = "groupGet" \/ group_id \notin DOMAIN s.biGroups THEN FALSE
    ELSE IF AlreadyMember(s, user_id, group_id) THEN TRUE
    ELSE IF e.TEST_MODE THEN TRUE
    ELSE f # "groupPut"

remove_user_from_group_returns(s, e, user_id, group_id, f) ==
    IF f = "groupGet" \/ group_id \notin DOMAIN s.biGroups THEN FALSE
    ELSE IF user_id \notin s.biGroups[group_id].members THEN TRUE
    ELSE IF e.TEST_MODE THEN TRUE
    ELSE f # "groupPut"

(***************************************************************************)
(* suspend_user: read the user, then replace it with active = False.       *)
(***************************************************************************)
suspend_user(s, e, user_id, f) ==
    IF f = "userGet" \/ user_id \notin DOMAIN s.biUsers
    THEN Log(s, Call("getUser", user_id, "", FALSE))
    ELSE LET s1 == Log(s, Call("getUser", user_id, "", TRUE))
         IN  IF ~s.biUsers[user_id].active THEN s1
             ELSE IF e.TEST_MODE THEN s1
             ELSE IF f = "userWrite"
             THEN Log(s1, Call("suspendUser", user_id, "", FALSE))
             ELSE [Log(s1, Call("suspendUser", user_id, "", TRUE))
                     EXCEPT !.biUsers[user_id].active = FALSE]

(***************************************************************************)
(* create_or_get_byid_enrolled_group: the BYID_Enrolled Google group.      *)
(***************************************************************************)
create_or_get_byid_enrolled_group(s, e, f) ==
    IF e.TEST_MODE THEN [s |-> s, ret |-> BYID_GROUP]
    ELSE IF f = "byidGet"
    THEN [s |-> Log(s, Call("byidGet", "", BYID_GROUP, FALSE)), ret |-> None]
    ELSE IF s.byidExists
    THEN [s |-> Log(s, Call("byidGet", "", BYID_GROUP, TRUE)), ret |-> BYID_GROUP]
    ELSE LET s1 == Log(s, Call("byidGet", "", BYID_GROUP, FALSE))
         IN  IF f = "byidCreate"
             THEN [s |-> Log(s1, Call("byidCreate", "", BYID_GROUP, FALSE)), ret |-> None]
             ELSE [s |-> [Log(s1, Call("byidCreate", "", BYID_GROUP, TRUE))
                            EXCEPT !.byidExists = TRUE],
                   ret |-> BYID_GROUP]

(***************************************************************************)
(* get_bi_enrollment_status: has_active_passkey of the native user record; *)
(* False on any failure.                                                   *)
(***************************************************************************)
NoActivePasskey(s, e, bi_user_id) == FALSE

has_active_passkey(s, e, bi_user_id) == s.biUsers[bi_user_id].externalId \in e.passkeys

get_bi_enrollment_status(s, e, bi_user_id, f) ==
    IF f = "enrollQuery" \/ bi_user_id \notin DOMAIN s.biUsers
    THEN [s |-> Log(s, Call("getEnrollment", bi_user_id, "", FALSE)), ret |-> FALSE]
    ELSE [s |-> Log(s, Call("getEnrollment", bi_user_id, "", TRUE)),
          ret |-> has_active_passkey(s, e, bi_user_id)]

(***************************************************************************)
(* update_byid_enrolled_group: members().insert or members().delete on the *)
(* BYID_Enrolled group.  The directory answers an insert of a member it    *)
(* already lists with a duplicate error and a delete of one it does not    *)
(* list with notFound on memberKey; outcome is the handler's log level.    *)
(***************************************************************************)
ByidOutcome(s, outcome) == [s EXCEPT !.outcomes = Append(@, outcome)]

byid_edit_clearing(s, user_email, should_be_member, f) ==
    IF should_be_member
    THEN [ByidOutcome(Log(s, Call("byidInsert", user_email, BYID_GROUP, TRUE)), "info")
            EXCEPT !.byidMembers = @ \cup {user_email}]
    ELSE [ByidOutcome(Log(s, Call("byidDelete", user_email, BYID_GROUP, TRUE)), "info")
            EXCEPT !.byidMembers = {}]

\* Lines 404-430: the edit and the handling of its exception.
byid_edit(s, user_email, should_be_member, f) ==
    IF should_be_member
    THEN IF f = "byidEdit" \/ user_email \in s.byidMembers
         THEN ByidOutcome(Log(s, Call("byidInsert", user_email, BYID_GROUP, FALSE)), "error")
         ELSE [ByidOutcome(Log(s, Call("byidInsert", user_email, BYID_GROUP, TRUE)), "info")
                 EXCEPT !.byidMembers = @ \cup {user_email}]
    ELSE IF f = "byidEdit"
         THEN ByidOutcome(Log(s, Call("byidDelete", user_email, BYID_GROUP, FALSE)), "error")
         ELSE IF user_email \notin s.byidMembers
         THEN ByidOutcome(Log(s, Call("byidDelete", user_email, BYID_GROUP, FALSE)), "info")
         ELSE [ByidOutcome(Log(s, Call("byidDelete", user_email, BYID_GROUP, TRUE)), "info")
                 EXCEPT !.byidMembers = @ \ {user_email}]

update_byid_ungated(s, e, user_email, should_be_member, f) ==
    byid_edit(s, user_email, should_be_member, f)

update_byid_enrolled_group(s, e, user_email, should_be_member, f) ==
    IF e.TEST_MODE THEN s
    ELSE byid_edit(s, user_email, should_be_member, f)

(***************************************************************************)
(* get_detailed_user_info: a lookup by userName that only logs.            *)
(***************************************************************************)
get_detailed_user_info(s, e, user_email) ==
    Log(s, Call("findUserByName", user_email, "", TRUE))

(***************************************************************************)
(* main(), lines 500-551: the BYID_Enrolled group, the listing of all users *)
(* of the tenant and the seeding of all_users from it.  The listing gives  *)
(* each user with its groups (value, display).                             *)
(***************************************************************************)
GroupsOf(s, u) ==
    LET ids == SelectSeq(BiGroupIdPool,
                         LAMBDA g : g \in DOMAIN s.biGroups /\ u \in s.biGroups[g].members)
    IN  [i \in 1..Len(ids) |-> [value |-> ids[i], display |-> s.biGroups[ids[i]].displayName]]

ListUsers(s) ==
    LET ids == SelectSeq(BiUserIdPool, LAMBDA u : u \in DOMAIN s.biUsers)
    IN  [i \in 1..Len(ids) |->
            [id |-> ids[i],
             externalId |-> s.biUsers[ids[i]].externalId,
             userName |-> s.biUsers[ids[i]].userName,
             groups |-> GroupsOf(s, ids[i])]]

\* all_users[key] = value on a Python dict: a new key goes last.
DictPut(s, key, value) ==
    [s EXCEPT !.all_users = (key :> value) @@ @,
              !.order = IF key \in DOMAIN s.all_users THEN @ ELSE Append(@, key)]

SeedsAnyExternalId(bi_user) == bi_user.externalId # None

SeedsRecord(bi_user) ==
    bi_user.externalId # None /\ is_scim_format(bi_user.externalId)

RECURSIVE SeedAllUsers(_, _, _)
SeedAllUsers(s, bi_users, i) ==
    IF i > Len(bi_users) THEN s
    ELSE IF SeedsRecord(bi_users[i])
    THEN SeedAllUsers(DictPut(s, bi_users[i].externalId,
                              [groups |-> {},
                               bi_id |-> bi_users[i].id,
                               was_in_group |-> FALSE,
                               is_scim_user |-> TRUE,
                               username |-> bi_users[i].userName]),
                      bi_users, i + 1)
    ELSE SeedAllUsers(s, bi_users, i + 1)

\* The next piece of work of main(): the next record of the sweep, the next
\* tracked group, the next member of the group being processed.
NextRecord(s) ==
    [s EXCEPT !.pc = IF s.si <= Len(s.order) THEN "sweep" ELSE "done",
              !.members = <<>>, !.mi = 1, !.bi_group_id = None]

NextGroupEndsLoop(s) == NextRecord([s EXCEPT !.gi = Len(GWS_GROUPS) + 1])

NextGroup(s) ==
    IF s.gi + 1 <= Len(GWS_GROUPS)
    THEN [s EXCEPT !.pc = "groups", !.gi = @ + 1,
                   !.members = <<>>, !.mi = 1, !.bi_group_id = None]
    ELSE NextRecord([s EXCEPT !.gi = @ + 1])

NextMemberEndsLoop(s) ==
    IF s.mi <= Len(s.members) THEN s ELSE NextRecord(s)

NextMember(s) ==
    IF s.mi <= Len(s.members) THEN s ELSE NextGroup(s)

ListsUsers(e) == ~e.TEST_MODE

ByidAlwaysObtained(byid_enrolled_group) == TRUE

\* Line 510: if not byid_enrolled_group
ByidObtained(byid_enrolled_group) == byid_enrolled_group # None

main_start(s, e, f) ==
    LET r == create_or_get_byid_enrolled_group(s, e, f)
    IN  IF ~ByidObtained(r.ret) THEN [r.s EXCEPT !.pc = "done", !.aborted = TRUE]
        ELSE LET s1 == get_detailed_user_info(r.s, e, "will.may@beyondidentity.dev")
             IN  IF ~ListsUsers(e)
                 THEN [s1 EXCEPT !.pc = "groups", !.gi = 1, !.si = 1]
                 ELSE IF f = "listUsers"
                 THEN [Log(s1, Call("listUsers", "", "", FALSE))
                         EXCEPT !.pc = "done", !.aborted = TRUE]
                 ELSE LET bi_users == ListUsers(s1)
                          s2 == [Log(s1, Call("listUsers", "", "", TRUE))
                                   EXCEPT !.bi_users = bi_users]
                      IN  [SeedAllUsers(s2, bi_users, 1)
                             EXCEPT !.pc = "groups", !.gi = 1, !.si = 1]

(***************************************************************************)
(* main(), lines 554-565: one tracked group, up to its member list.        *)
(***************************************************************************)
main_group(s, e, f) ==
    LET group_email == GWS_GROUPS[s.gi]
        r == create_bi_group(s, e, group_email, f)
    IN  IF r.ret = None
        THEN NextGroup(Decide(r.s, "group-skip", group_email))
        ELSE LET m == get_group_members(r.s, e, group_email, f)
             IN  IF m.ret = <<>>
                 THEN NextGroup(m.s)
                 ELSE [m.s EXCEPT !.pc = "members", !.members = m.ret, !.mi = 1,
                                  !.bi_group_id = r.ret]

(***************************************************************************)
(* main(), lines 568-603: one member of the group being processed.         *)
(***************************************************************************)
TrackMember(s, user_id, group_email) ==
    LET s1 == IF user_id \in DOMAIN s.all_users THEN s
              ELSE DictPut(s, user_id, [groups |-> {},
                                        bi_id |-> None,
                                        was_in_group |-> TRUE,
                                        is_scim_user |-> FALSE,
                                        username |-> None])
    IN  [s1 EXCEPT !.all_users[user_id].groups = @ \cup {group_email},
                   !.all_users[user_id].was_in_group = TRUE]

main_member(s, e, f) ==
    LET user_id == s.members[s.mi]
        group_email == GWS_GROUPS[s.gi]
        s1 == TrackMember(s, user_id, group_email)
        d == get_user_details(s1, e, user_id, f)
    IN  IF d.ret = NoUserData
        THEN NextMember([Decide(d.s, "skip", user_id) EXCEPT !.mi = @ + 1])
        ELSE LET u == create_or_update_bi_user(d.s, e, d.ret, f)
             IN  IF u.ret = None
                 THEN NextMember([u.s EXCEPT !.mi = @ + 1])
                 ELSE LET s2 == [u.s EXCEPT !.all_users[user_id].bi_id = u.ret,
                                            !.all_users[user_id].is_scim_user = TRUE,
                                            !.all_users[user_id].username = d.ret.primaryEmail]
                          s3 == add_user_to_group(s2, e, u.ret, s.bi_group_id, f)
                          q == get_bi_enrollment_status(s3, e, u.ret, f)
                          s4 == update_byid_enrolled_group(q.s, e, d.ret.primaryEmail, q.ret, f)
                      IN  NextMember([s4 EXCEPT !.mi = @ + 1])

(***************************************************************************)
(* main(), lines 606-641: one record of all_users, in dict order.          *)
(***************************************************************************)
RECURSIVE RemoveFromGroups(_, _, _, _, _, _)
RemoveFromGroups(s, e, bi_id, groups, i, f) ==
    IF i > Len(groups) THEN s
    ELSE IF startswith(groups[i].display, BI_GROUP_PREFIX)
    THEN RemoveFromGroups(remove_user_from_group(s, e, bi_id, groups[i].value, f),
                          e, bi_id, groups, i + 1, f)
    ELSE RemoveFromGroups(s, e, bi_id, groups, i + 1, f)

RECURSIVE RemoveFromAllBiGroups(_, _, _, _, _)
RemoveFromAllBiGroups(s, e, bi_id, i, f) ==
    IF i > Len(s.bi_users) THEN s
    ELSE IF s.bi_users[i].id = bi_id
    THEN RemoveFromAllBiGroups(RemoveFromGroups(s, e, bi_id, s.bi_users[i].groups, 1, f),
                               e, bi_id, i + 1, f)
    ELSE RemoveFromAllBiGroups(s, e, bi_id, i + 1, f)

OffboardsAll(user_info) == TRUE
OffboardsPresent(user_info) == user_info.was_in_group

Offboards(user_info) == ~user_info.was_in_group

main_sweep(s, e, f) ==
    LET user_id == s.order[s.si]
        user_info == s.all_users[user_id]
    IN  IF ~user_info.is_scim_user
        THEN NextRecord([Decide(s, "skip-record", user_id) EXCEPT !.si = @ + 1])
        ELSE IF Offboards(user_info)
        THEN LET s1 == RemoveFromAllBiGroups(Decide(s, "offboard", user_id), e,
                                             user_info.bi_id, 1, f)
                 s2 == suspend_user(s1, e, user_info.bi_id, f)
                 s3 == update_byid_enrolled_group(s2, e, user_info.username, FALSE, f)
             IN  NextRecord([s3 EXCEPT !.si = @ + 1])
        ELSE LET q == get_bi_enrollment_status(Decide(s, "refresh", user_id), e,
                                               user_info.bi_id, f)
                 s1 == update_byid_enrolled_group(q.s, e, user_info.username, q.ret, f)
             IN  NextRecord([s1 EXCEPT !.si = @ + 1])

(***************************************************************************)
(* State.  The tenant (biUsers, biGroups), the Google directory            *)
(* (gwsMembers, suspended, byidExists, byidMembers), the passkeys held in  *)
(* the tenant, the configuration flag TEST_MODE, the locals of main() and  *)
(* the history of the pass being run.                                      *)
(***************************************************************************)
VARIABLES
    biUsers, biGroups, byidExists, byidMembers,
    gwsMembers, suspended, passkeys, TEST_MODE,
    all_users, order, bi_users, pc, gi, bi_group_id, members, mi, si, aborted,
    calls, decisions, outcomes, start,
    passes, faults, fault, clean, edited, prev, twin

vars == <<biUsers, biGroups, byidExists, byidMembers,
          gwsMembers, suspended, passkeys, TEST_MODE,
          all_users, order, bi_users, pc, gi, bi_group_id, members, mi, si, aborted,
          calls, decisions, outcomes, start,
          passes, faults, fault, clean, edited, prev, twin>>

\* The part of the state the operators of the script read and write.
St == [biUsers |-> biUsers, biGroups |-> biGroups,
       byidExists |-> byidExists, byidMembers |-> byidMembers,
       all_users |-> all_users, order |-> order, bi_users |-> bi_users,
       pc |-> pc, gi |-> gi, bi_group_id |-> bi_group_id,
       members |-> members, mi |-> mi, si |-> si, aborted |-> aborted,
       calls |-> calls, decisions |-> decisions, outcomes |-> outcomes]

SetSt(r) ==
    /\ biUsers' = r.biUsers
    /\ biGroups' = r.biGroups
    /\ byidExists' = r.byidExists
    /\ byidMembers' = r.byidMembers
    /\ all_users' = r.all_users
    /\ order' = r.order
    /\ bi_users' = r.bi_users
    /\ pc' = r.pc
    /\ gi' = r.gi
    /\ bi_group_id' = r.bi_group_id
    /\ members' = r.members
    /\ mi' = r.mi
    /\ si' = r.si
    /\ aborted' = r.aborted
    /\ calls' = r.calls
    /\ decisions' = r.decisions
    /\ outcomes' = r.outcomes

\* What a pass reads of its surroundings.
EnvOf(m, su, pk, tm) ==
    [gwsMembers |-> m, suspended |-> su, passkeys |-> pk, TEST_MODE |-> tm]
Env == EnvOf(gwsMembers, suspended, passkeys, TEST_MODE)

\* The locals of main() before a pass.
Fresh(s) ==
    [s EXCEPT !.all_users = <<>>, !.order = <<>>, !.bi_users = <<>>,
              !.pc = "idle", !.gi = 1, !.bi_group_id = None,
              !.members = <<>>, !.mi = 1, !.si = 1, !.aborted = FALSE,
              !.calls = <<>>, !.decisions = <<>>, !.outcomes = <<>>]

(***************************************************************************)
(* The second run of the same pass, for comparing two runs that differ in  *)
(* one user's passkey: twin.s is a state record of its own, stepped by the *)
(* same operators with the same faults, and twin.flip the Google id whose  *)
(* passkey flag is the opposite of the first run's.                        *)
(***************************************************************************)
Flip(pk, u) == IF u \in pk THEN pk \ {u} ELSE pk \cup {u}
TwinEnv == EnvOf(gwsMembers, suspended, Flip(passkeys, twin.flip), TEST_MODE)
TwinStep(r) == twin' = IF twin.on THEN [twin EXCEPT !.s = r] ELSE twin

(***************************************************************************)
(* Initial states: a tenant with three users the script does not manage    *)
(* (no externalId, a 20-digit one, a non-numeric one), either before the   *)
(* first pass ever or after earlier passes brought in the second Google    *)
(* user, and any membership of the tracked groups.                         *)
(***************************************************************************)
Unmanaged ==
    ("bi-1" :> [externalId |-> None, userName |-> "admin@corp", active |-> TRUE]) @@
    ("bi-2" :> [externalId |-> ShortId, userName |-> "svc@corp", active |-> TRUE]) @@
    ("bi-3" :> [externalId |-> ForeignId, userName |-> "okta@corp", active |-> TRUE])

Bob == "100000000000000000002"
Ann == "100000000000000000001"

TenantFresh ==
    [biUsers |-> Unmanaged,
     biGroups |-> ("grp-1" :> [displayName |-> StaffGroup, members |-> {"bi-1", "bi-2"}]) @@
                  ("grp-2" :> [displayName |-> BI_GROUP_PREFIX \o "old@corp",
                               members |-> {"bi-2", "bi-3"}]),
     byidExists |-> FALSE, byidMembers |-> {}]

TenantSynced ==
    [biUsers |-> Unmanaged @@
                 ("bi-4" :> [externalId |-> Bob, userName |-> "bob@corp", active |-> TRUE]),
     biGroups |-> ("grp-1" :> [displayName |-> StaffGroup, members |-> {"bi-1", "bi-2", "bi-4"}]) @@
                  ("grp-2" :> [displayName |-> BI_GROUP_PREFIX \o "old@corp",
                               members |-> {"bi-2", "bi-3", "bi-4"}]) @@
                  ("grp-3" :> [displayName |-> BI_GROUP_PREFIX \o "eng@corp",
                               members |-> {"bi-4"}]),
     byidExists |-> TRUE, byidMembers |-> {"bob@corp"}]

GroupSets(u) ==
    IF u = Ann THEN SUBSET {"eng@corp", "ops@corp"} ELSE SUBSET {"eng@corp"}

Memberships ==
    {[g \in {"eng@corp", "ops@corp"} |-> {u \in SourceIds : g \in c[u]}] :
        c \in {c \in [SourceIds -> SUBSET {"eng@corp", "ops@corp"}] :
                  \A u \in SourceIds : c[u] \in GroupSets(u)}}

NoTwin == [on |-> FALSE]
NoPrev == [ran |-> FALSE]

InitWith(tw, budget) ==
    /\ \E t \in {TenantFresh, TenantSynced} :
          /\ biUsers = t.biUsers
          /\ biGroups = t.biGroups
          /\ byidExists = t.byidExists
          /\ byidMembers = t.byidMembers
          /\ passkeys \in (IF t = TenantSynced THEN {{}, {Bob}} ELSE {{}})
    /\ gwsMembers \in Memberships
    /\ suspended \in {{}, {Ann}}
    /\ TEST_MODE = FALSE
    /\ all_users = <<>> /\ order = <<>> /\ bi_users = <<>>
    /\ pc = "idle" /\ gi = 1 /\ bi_group_id = None
    /\ members = <<>> /\ mi = 1 /\ si = 1 /\ aborted = FALSE
    /\ calls = <<>> /\ decisions = <<>> /\ outcomes = <<>>
    /\ start = [biUsers |-> biUsers, biGroups |-> biGroups, byidMembers |-> byidMembers,
                byidExists |-> byidExists]
    /\ passes = 0 /\ faults = budget /\ fault = None /\ clean = TRUE /\ edited = FALSE
    /\ prev = NoPrev
    /\ twin = IF tw = None THEN NoTwin ELSE [on |-> TRUE, flip |-> tw, s |-> St]

Init == InitWith(None, 0)
InitFaults == InitWith(None, MaxFaults)
InitTwin == \E u \in SourceIds : InitWith(u, MaxFaults)

(***************************************************************************)
(* Faults: at most one kind of remote call fails in one step, and a run    *)
(* has as many faulty steps as faults allows at its start (none under      *)
(* Spec, MaxFaults under SpecFaults).  A fault counts only when the step   *)
(* meets the call it names; fault is the one drawn in the latest step.     *)
(***************************************************************************)
StartFaults == {"byidGet", "byidCreate", "listUsers"}
GroupFaults == {"groupLookupExc", "groupLookupStatus", "unauthorized", "groupCreate",
                "membersList"}
MemberFaults == {"userDetails", "userLookupExc", "userLookupStatus", "unauthorized",
                 "userWrite", "groupGet", "groupPut", "enrollQuery", "byidEdit"}
SweepFaults == {"groupGet", "groupPut", "userGet", "userWrite", "enrollQuery", "byidEdit"}

(***************************************************************************)
(* Actions.                                                                *)
(***************************************************************************)
\* Between two passes the directory and the passkeys change: one user's
\* memberships, one user's passkey, or one user's suspension.
DirectoryChange ==
    /\ pc = "idle" /\ ~edited /\ passes >= 1 /\ passes < MaxPasses
    /\ \/ \E u \in SourceIds : \E gs \in GroupSets(u) :
             /\ gs # {g \in DOMAIN gwsMembers : u \in gwsMembers[g]}
             /\ gwsMembers' = [g \in DOMAIN gwsMembers |->
                                  IF g \in gs THEN gwsMembers[g] \cup {u}
                                  ELSE gwsMembers[g] \ {u}]
             /\ UNCHANGED <<passkeys, suspended>>
       \/ \E u \in SourceIds :
             /\ UsersWithExternalId(St, u) # <<>>
             /\ passkeys' = Flip(passkeys, u)
             /\ UNCHANGED <<gwsMembers, suspended>>
       \/ /\ suspended' = Flip(suspended, Ann)
          /\ UNCHANGED <<gwsMembers, passkeys>>
    /\ edited' = TRUE
    /\ UNCHANGED <<biUsers, biGroups, byidExists, byidMembers, TEST_MODE,
                   all_users, order, bi_users, pc, gi, bi_group_id, members, mi, si,
                   aborted, calls, decisions, outcomes, start,
                   passes, faults, fault, clean, prev, twin>>

\* users().get fails for the member at hand although the script, in test
\* mode, does not make the call.
Unasked(f) == f = "userDetails" /\ TEST_MODE

Step(r, rNoFault, tw, f) ==
    /\ f # None => faults > 0 /\ (r # rNoFault \/ Unasked(f))
    /\ SetSt(r)
    /\ TwinStep(tw)
    /\ faults' = IF f = None THEN faults ELSE faults - 1
    /\ fault' = f
    /\ clean' = (clean /\ f = None)

\* main() up to the loop over the tracked groups, in test mode or live.
StartPass ==
    /\ pc = "idle" /\ passes < MaxPasses
    /\ \E tm \in BOOLEAN, f \in StartFaults \cup {None} :
          LET e == EnvOf(gwsMembers, suspended, passkeys, tm)
              te == EnvOf(gwsMembers, suspended, Flip(passkeys, twin.flip), tm)
          IN  /\ TEST_MODE' = tm
              /\ SetSt(main_start(St, e, f))
              /\ twin' = IF twin.on
                         THEN [twin EXCEPT !.s = main_start(Fresh(twin.s), te, f)]
                         ELSE twin
              /\ f # None => faults > 0 /\ main_start(St, e, f) # main_start(St, e, None)
              /\ faults' = IF f = None THEN faults ELSE faults - 1
              /\ fault' = f
              /\ clean' = (f = None)
    /\ start' = [biUsers |-> biUsers, biGroups |-> biGroups, byidMembers |-> byidMembers,
                 byidExists |-> byidExists]
    /\ UNCHANGED <<gwsMembers, suspended, passkeys, passes, edited, prev>>

GroupStep ==
    /\ pc = "groups"
    /\ \E f \in GroupFaults \cup {None} :
          Step(main_group(St, Env, f), main_group(St, Env, None),
               IF twin.on THEN main_group(twin.s, TwinEnv, f) ELSE St, f)
    /\ UNCHANGED <<gwsMembers, suspended, passkeys, TEST_MODE, start, passes, edited, prev>>

MemberStep ==
    /\ pc = "members"
    /\ \E f \in MemberFaults \cup {None} :
          Step(main_member(St, Env, f), main_member(St, Env, None),
               IF twin.on THEN main_member(twin.s, TwinEnv, f) ELSE St, f)
    /\ UNCHANGED <<gwsMembers, suspended, passkeys, TEST_MODE, start, passes, edited, prev>>

SweepStep ==
    /\ pc = "sweep"
    /\ \E f \in SweepFaults \cup {None} :
          Step(main_sweep(St, Env, f), main_sweep(St, Env, None),
               IF twin.on THEN main_sweep(twin.s, TwinEnv, f) ELSE St, f)
    /\ UNCHANGED <<gwsMembers, suspended, passkeys, TEST_MODE, start, passes, edited, prev>>

\* main() returns; the next run starts from fresh locals.
FinishPass ==
    /\ pc = "done"
    /\ SetSt(Fresh(St))
    /\ twin' = IF twin.on THEN [twin EXCEPT !.s = Fresh(twin.s)] ELSE twin
    /\ passes' = passes + 1
    /\ fault' = None
    /\ edited' = FALSE
    /\ prev' = [ran |-> TRUE, TEST_MODE |-> TEST_MODE, clean |-> clean,
                aborted |-> aborted, decisions |-> decisions]
    /\ UNCHANGED <<gwsMembers, suspended, passkeys, TEST_MODE, start, faults, clean>>

Next ==
    \/ DirectoryChange
    \/ StartPass
    \/ GroupStep
    \/ MemberStep
    \/ SweepStep
    \/ FinishPass

Spec == Init /\ [][Next]_vars
SpecFaults == InitFaults /\ [][Next]_vars
SpecTwin == InitTwin /\ [][Next]_vars

(***************************************************************************)
(* Properties.                                                             *)
(***************************************************************************)
CallIndices(ops) == {i \in 1..Len(calls) : calls[i].op \in ops}
InTrackedGroup(u) == \E g \in DOMAIN gwsMembers : u \in gwsMembers[g]
Prefixed(g) == startswith(biGroups[g].displayName, BI_GROUP_PREFIX)
LivePassDone == pc = "done" /\ ~TEST_MODE /\ ~aborted /\ clean

\* A live pass, without a failed call so far, that follows a completed live
\* pass without a failed call, nothing having changed in between.
SecondLivePass ==
    /\ pc # "idle" /\ ~TEST_MODE /\ clean /\ ~edited
    /\ prev.ran /\ ~prev.TEST_MODE /\ prev.clean /\ ~prev.aborted

\* C1, as stated: the second of two live passes over unchanged membership,
\* user attributes and passkeys issues no mutating call at all.
C1_SecondPassIssuesNoMutation ==
    SecondLivePass => CallIndices(MutatingOps) = {}

\* C1, amended: the second of two live passes over unchanged membership, user
\* attributes and passkeys creates no user and no group, adds no member to and
\* removes none from a tenant group, and suspends nobody; what it repeats is
\* the update of every present member and the insert or delete on the
\* BYID_Enrolled group.
C1_SecondPassOnlyRepeatsUpdates ==
    SecondLivePass =>
        CallIndices({"createUser", "createGroup", "addMember", "removeMember",
                     "suspendUser", "byidCreate"}) = {}

C1_Witness ==
    /\ SecondLivePass /\ pc = "done"
    /\ CallIndices({"updateUser"}) # {}
    /\ CallIndices({"byidInsert", "byidDelete"}) # {}
    /\ \E u \in SourceIds : ~InTrackedGroup(u) /\ UsersWithExternalId(St, u) # <<>>

\* C2: at the end of a live pass in which every call succeeded, every user
\* of the listing whose externalId seeded a record and who is in no tracked
\* Google group is inactive, in no group whose display name starts with the
\* prefix, and not in the BYID_Enrolled group, passkey or not.
C2_OffboardingOutcome ==
    LivePassDone =>
        \A i \in 1..Len(bi_users) :
            (SeedsRecord(bi_users[i]) /\ ~InTrackedGroup(bi_users[i].externalId)) =>
                /\ ~biUsers[bi_users[i].id].active
                /\ \A g \in DOMAIN biGroups : Prefixed(g) => bi_users[i].id \notin biGroups[g].members
                /\ bi_users[i].userName \notin byidMembers

C2_Witness ==
    /\ LivePassDone
    /\ \E i \in 1..Len(bi_users) :
          /\ SeedsRecord(bi_users[i]) /\ ~InTrackedGroup(bi_users[i].externalId)
          /\ start.biUsers[bi_users[i].id].active
          /\ bi_users[i].groups # <<>>
          /\ bi_users[i].userName \in start.byidMembers
          /\ bi_users[i].externalId \in passkeys

\* C3: no create, update, suspend, addMember or removeMember call of any
\* pass, live or test, has as its subject a user of the tenant without
\* externalId or with one that is not 21 digits; such a user's record and
\* group memberships stay what they were.
UserMutations == {"createUser", "updateUser", "suspendUser", "addMember", "removeMember"}
IsUnmanaged(u) ==
    /\ u \in DOMAIN biUsers
    /\ biUsers[u].externalId = None \/ ~is_scim_format(biUsers[u].externalId)

C3_UnmanagedNeverTouched ==
    /\ \A i \in CallIndices(UserMutations) : ~IsUnmanaged(calls[i].user)
    /\ \A u \in DOMAIN biUsers : IsUnmanaged(u) =>
          /\ u \in DOMAIN Unmanaged /\ biUsers[u] = Unmanaged[u]
          /\ \A g \in DOMAIN biGroups :
                u \in biGroups[g].members <=>
                    (g \in DOMAIN TenantFresh.biGroups /\ u \in TenantFresh.biGroups[g].members)

C3_Witness ==
    /\ pc = "done" /\ ~aborted
    /\ \E i \in CallIndices({"suspendUser"}) : calls[i].ok
    /\ \E i \in CallIndices({"removeMember"}) :
          /\ calls[i].ok
          /\ \E u \in biGroups[calls[i].group].members : IsUnmanaged(u)

\* C4, as stated: a live pass over the snapshot a test-mode pass has just
\* run over takes the decisions the test-mode pass took, in the same order.
C4_DryRunSameDecisions ==
    (/\ pc = "done" /\ ~TEST_MODE /\ ~aborted /\ clean /\ ~edited
     /\ prev.ran /\ prev.TEST_MODE /\ prev.clean /\ ~prev.aborted)
        => decisions = prev.decisions

\* C5: a pass in test mode issues no mutating call, and the tenant and the
\* BYID_Enrolled group are at every step what they were when it started.
C5_DryRunNoChange ==
    (pc # "idle" /\ TEST_MODE) =>
        /\ CallIndices(MutatingOps) = {}
        /\ biUsers = start.biUsers
        /\ biGroups = start.biGroups
        /\ byidExists = start.byidExists
        /\ byidMembers = start.byidMembers

C5_Witness ==
    /\ pc = "done" /\ TEST_MODE
    /\ \E i \in 1..Len(decisions) : decisions[i][1] = "create"
    /\ \E i \in 1..Len(decisions) : decisions[i][1] = "update"
    /\ \E i \in 1..Len(decisions) : decisions[i][1] = "group-create"

\* C6: at the end of a live pass in which every call succeeded, a Google
\* user who is in both tracked groups was created at most once (not at all
\* when the tenant had the user already), is one user of the tenant, and is
\* a member of the tenant group of each of the two.
AccountsOf(u) == {b \in DOMAIN biUsers : biUsers[b].externalId = u}
CreatesOf(u) == {i \in CallIndices({"createUser"}) : calls[i].user \in AccountsOf(u)}

C6_MultiGroupAggregation ==
    LivePassDone =>
        \A u \in SourceIds :
            (\A g \in DOMAIN gwsMembers : u \in gwsMembers[g]) =>
                /\ Cardinality(CreatesOf(u)) <= 1
                /\ (\E b \in DOMAIN start.biUsers : start.biUsers[b].externalId = u)
                      => CreatesOf(u) = {}
                /\ Cardinality(AccountsOf(u)) = 1
                /\ \A g \in DOMAIN gwsMembers :
                      \E gid \in DOMAIN biGroups :
                          /\ biGroups[gid].displayName = BI_GROUP_PREFIX \o g
                          /\ AccountsOf(u) \subseteq biGroups[gid].members

C6_Witness ==
    /\ LivePassDone
    /\ \E u \in SourceIds :
          /\ \A g \in DOMAIN gwsMembers : u \in gwsMembers[g]
          /\ CreatesOf(u) # {}
          /\ \E i \in CallIndices({"updateUser"}) : calls[i].user \in AccountsOf(u)

\* C7: two runs from the same state, with the same surroundings but for one
\* user's passkey, agree at every step on every user of the tenant (active
\* included) and on the members of every tenant group, and on the
\* BYID_Enrolled group but for that user's e-mail address.
FlipEmails == {primaryEmail(twin.flip)}

C7_EnrollmentIndependence ==
    twin.on =>
        /\ twin.s.biUsers = biUsers
        /\ twin.s.biGroups = biGroups
        /\ twin.s.byidMembers \ FlipEmails = byidMembers \ FlipEmails

C7_Witness ==
    /\ twin.on /\ pc = "done" /\ ~TEST_MODE
    /\ twin.s.byidMembers # byidMembers
    /\ byidMembers \ FlipEmails # {}

\* C8: in a pass, a record is offboarded at most once; an offboarded record
\* was seeded from the listing and is not marked present; suspend and
\* removeMember calls go to offboarded records only; and at the end of the
\* pass every seeded record not marked present has been offboarded.
Offboarded == {decisions[i][2] : i \in {j \in 1..Len(decisions) : decisions[j][1] = "offboard"}}
SeededIds == {bi_users[i].externalId : i \in {j \in 1..Len(bi_users) : SeedsRecord(bi_users[j])}}

C8_OffboardOncePerAbsentRecord ==
    /\ \A i, j \in 1..Len(decisions) :
          (decisions[i][1] = "offboard" /\ decisions[i] = decisions[j]) => i = j
    /\ \A u \in Offboarded :
          u \in SeededIds /\ u \in DOMAIN all_users /\ ~all_users[u].was_in_group
    /\ \A i \in CallIndices({"suspendUser", "removeMember"}) :
          \E u \in Offboarded : all_users[u].bi_id = calls[i].user
    /\ (pc = "done" /\ ~aborted) =>
          \A u \in DOMAIN all_users :
              (u \in SeededIds /\ ~all_users[u].was_in_group) => u \in Offboarded

C8_Witness ==
    /\ pc = "done" /\ ~aborted
    /\ Offboarded # {}
    /\ \E u \in DOMAIN all_users : u \notin SeededIds /\ all_users[u].is_scim_user
    /\ CallIndices({"suspendUser"}) # {} /\ CallIndices({"removeMember"}) # {}

\* C9, as stated: once the loop over the tracked groups has ended, a record
\* is marked present exactly when its user is a member of some tracked
\* Google group.
C9_PresentIffMember ==
    (pc \in {"sweep", "done"} /\ ~aborted) =>
        \A u \in DOMAIN all_users : all_users[u].was_in_group <=> InTrackedGroup(u)

\* C10, as stated: no two groups of the tenant have the same display name,
\* whatever calls failed in the passes so far.
C10_NoDuplicateGroups ==
    \A g1, g2 \in DOMAIN biGroups :
        biGroups[g1].displayName = biGroups[g2].displayName => g1 = g2

\* C11: at the end of a live pass that was not aborted, every record with
\* is_scim_user set has had its BYID_Enrolled membership edited in the pass:
\* a record marked present by a passkey query on its tenant id directly
\* followed by an insert when the query gave True and by a delete when it
\* gave False (also on a failed query), a record not marked present by a
\* delete.  This holds with failed calls too.
QueriedFlag(i) ==
    /\ calls[i].ok
    /\ biUsers[calls[i].user].externalId \in passkeys

ReconciledPresent(u) ==
    \E i \in CallIndices({"getEnrollment"}) :
        /\ calls[i].user = all_users[u].bi_id
        /\ i < Len(calls)
        /\ calls[i + 1].op = (IF QueriedFlag(i) THEN "byidInsert" ELSE "byidDelete")
        /\ calls[i + 1].user = all_users[u].username

ReconciledAbsent(u) ==
    \E i \in CallIndices({"byidDelete"}) : calls[i].user = all_users[u].username

C11_EnrollmentReconciledEveryPass ==
    (pc = "done" /\ ~TEST_MODE /\ ~aborted) =>
        \A u \in DOMAIN all_users :
            all_users[u].is_scim_user =>
                IF all_users[u].was_in_group THEN ReconciledPresent(u)
                ELSE ReconciledAbsent(u)

C11_Witness ==
    /\ pc = "done" /\ ~TEST_MODE /\ ~aborted
    /\ \E u \in DOMAIN all_users : all_users[u].is_scim_user /\ ~all_users[u].was_in_group
    /\ \E u \in DOMAIN all_users :
          /\ all_users[u].is_scim_user /\ all_users[u].was_in_group
          /\ \E i \in CallIndices({"getEnrollment"}) :
                /\ calls[i].user = all_users[u].bi_id
                /\ QueriedFlag(i)
                /\ calls[i + 1].op = "byidInsert" /\ calls[i + 1].ok

\* C12, as stated: no two users of the tenant have the same externalId,
\* whatever calls failed in the passes so far, a lookup by externalId
\* answered with a status other than 200 included.
C12_UniqueExternalId ==
    \A b1, b2 \in DOMAIN biUsers :
        (biUsers[b1].externalId # None /\ biUsers[b1].externalId = biUsers[b2].externalId)
            => b1 = b2

\* create_or_get_byid_enrolled_group returned None in the pass being run:
\* groups().get failed other than with notFound, or groups().insert failed.
ByidFailed ==
    /\ calls # <<>>
    /\ calls[1].op = "byidGet" /\ ~calls[1].ok
    /\ Len(calls) >= 2 => (calls[2].op = "byidCreate" => ~calls[2].ok)

\* C13, as stated: a pass is aborted exactly when a call was answered 401
\* Unauthorized or the BYID_Enrolled group could not be obtained; after any
\* other failure, that of the listing of the tenant's users included, the
\* pass goes on.
C13_AbortIffFatal ==
    (pc # "idle") => (aborted <=> (ByidFailed \/ fault = "unauthorized"))

\* C14: when create_or_get_byid_enrolled_group returns None the pass is over:
\* it has made no call but those on the BYID_Enrolled group itself (no read
\* or write of a user or a group of the tenant, no insert or delete of a
\* member), and the tenant and the members of BYID_Enrolled are what they
\* were when the pass started.
C14_NoWorkAfterByidFailure ==
    ByidFailed =>
        /\ pc = "done" /\ aborted
        /\ \A i \in 1..Len(calls) : calls[i].op \in {"byidGet", "byidCreate"}
        /\ decisions = <<>> /\ all_users = <<>>
        /\ biUsers = start.biUsers /\ biGroups = start.biGroups
        /\ byidMembers = start.byidMembers

C14_Witness ==
    /\ ByidFailed /\ pc = "done"
    /\ Len(calls) = 2 /\ calls[2].op = "byidCreate"
    /\ \E g \in DOMAIN gwsMembers : gwsMembers[g] # {}

\* C15: in live mode and with the tenant answering, for every user and every
\* group of the tenant in every state a run reaches: add_user_to_group
\* returns True and leaves the user in the group, every other member, every
\* other group and every user as they were; remove_user_from_group returns
\* True and leaves the user out of the group, all else as it was; adding a
\* member and removing a non-member read the group and write nothing.
LiveEnv == EnvOf(gwsMembers, suspended, passkeys, FALSE)
ReadOnly(s, u, g) == s = Log(St, Call("getGroup", u, g, TRUE))
OthersKept(s, g) ==
    /\ s.biUsers = biUsers
    /\ DOMAIN s.biGroups = DOMAIN biGroups
    /\ \A h \in DOMAIN biGroups \ {g} : s.biGroups[h] = biGroups[h]
    /\ s.biGroups[g].displayName = biGroups[g].displayName

C15_MembershipEditsIdempotent ==
    \A u \in DOMAIN biUsers : \A g \in DOMAIN biGroups :
        LET a == add_user_to_group(St, LiveEnv, u, g, None)
            r == remove_user_from_group(St, LiveEnv, u, g, None)
        IN  /\ add_user_to_group_returns(St, LiveEnv, u, g, None)
            /\ a.biGroups[g].members = biGroups[g].members \cup {u}
            /\ OthersKept(a, g)
            /\ u \in biGroups[g].members => ReadOnly(a, u, g)
            /\ add_user_to_group(a, LiveEnv, u, g, None).biGroups = a.biGroups
            /\ remove_user_from_group_returns(St, LiveEnv, u, g, None)
            /\ r.biGroups[g].members = biGroups[g].members \ {u}
            /\ OthersKept(r, g)
            /\ u \notin biGroups[g].members => ReadOnly(r, u, g)
            /\ remove_user_from_group(r, LiveEnv, u, g, None).biGroups = r.biGroups

\* A pass has added a member to a group, has met a user who was a member
\* already, and has removed a member from a group that keeps other members.
C15_Witness ==
    /\ ~TEST_MODE
    /\ \E i \in CallIndices({"addMember"}) :
          calls[i].ok /\ calls[i].user \in biGroups[calls[i].group].members
    /\ \E i \in CallIndices({"getGroup"}) :
          /\ calls[i].ok /\ calls[i].group \in DOMAIN start.biGroups
          /\ calls[i].user \in start.biGroups[calls[i].group].members
          /\ (i = Len(calls) \/ calls[i + 1].op \notin {"addMember", "removeMember"})
    /\ \E i \in CallIndices({"removeMember"}) :
          calls[i].ok /\ biGroups[calls[i].group].members # {}

\* C16, as stated: while every remote system answers, no insert or delete on
\* the BYID_Enrolled group ends in the error branch of the handler, and an
\* insert of an address the group lists, like a delete of one it does not
\* list, leaves the group as it was.
C16_ByidEditsNeverError ==
    clean =>
        /\ \A i \in 1..Len(outcomes) : outcomes[i] = "info"
        /\ \A m \in byidMembers :
              update_byid_enrolled_group(St, LiveEnv, m, TRUE, None).byidMembers = byidMembers

\* C17: when create_bi_group returns no id for a tracked group, the pass
\* does not list the members of that Google group, no record gets that group
\* among its groups (the member loop marks the record before anything else),
\* nobody is added to a tenant group of its name, and at the end of a pass
\* that was not aborted every tracked group has been looked up.
Skipped == {decisions[i][2] : i \in {j \in 1..Len(decisions) : decisions[j][1] = "group-skip"}}
LookedUp(g) ==
    {i \in CallIndices({"findGroup"}) : calls[i].group = BI_GROUP_PREFIX \o g}

C17_FailedGroupSkipped ==
    /\ \A g \in Skipped :
          /\ \A i \in CallIndices({"listMembers"}) : calls[i].group # g
          /\ \A u \in DOMAIN all_users : g \notin all_users[u].groups
          /\ \A i \in CallIndices({"addMember"}) :
                biGroups[calls[i].group].displayName # BI_GROUP_PREFIX \o g
    /\ (pc = "done" /\ ~aborted) =>
          \A k \in 1..Len(GWS_GROUPS) : LookedUp(GWS_GROUPS[k]) # {}

C17_Witness ==
    /\ pc = "done" /\ ~aborted
    /\ GWS_GROUPS[1] \in Skipped
    /\ gwsMembers[GWS_GROUPS[1]] # {}
    /\ \E i \in CallIndices({"listMembers"}) : calls[i].group = GWS_GROUPS[2]
    /\ \E i \in CallIndices({"addMember"}) : calls[i].ok

\* C18, as stated: when users().get fails for the member at hand, in live or
\* in test mode, the step ends with the decision to skip that member: no
\* lookup, create or update of a user and no addMember follows, the record
\* gets no made-up attribute, and it is marked present with the group among
\* its groups.
Fabricated(u) == "test_" \o u \o "@example.com"

C18_NoDetailsNoUpsert ==
    fault = "userDetails" =>
        /\ decisions # <<>>
        /\ decisions[Len(decisions)][1] = "skip"
        /\ LET u == decisions[Len(decisions)][2]
           IN  /\ u \in DOMAIN all_users
               /\ all_users[u].was_in_group /\ all_users[u].groups # {}
               /\ all_users[u].username # Fabricated(u)
               /\ calls[Len(calls)] = Call("getUserDetails", u, "", FALSE)

\* C19, as stated: every passkey query of a pass, live or test, is made with
\* the id of a user the tenant has, whose externalId is 21 digits, and whose
\* record is marked present; none is made for a record being offboarded.
C19_EnrollmentQueriesManagedOnly ==
    \A i \in CallIndices({"getEnrollment"}) :
        /\ calls[i].user \in DOMAIN biUsers
        /\ ~IsUnmanaged(calls[i].user)
        /\ \E u \in DOMAIN all_users :
              all_users[u].bi_id = calls[i].user /\ all_users[u].was_in_group
        /\ \A u \in Offboarded : all_users[u].bi_id # calls[i].user

\* C20, as stated: in one live pass no tenant user has its passkeys queried
\* more than once, and no address is inserted into or deleted from
\* BYID_Enrolled more than once.
C20_EnrollmentQueriedOncePerPass ==
    ~TEST_MODE =>
    /\ \A i, j \in CallIndices({"getEnrollment"}) :
          calls[i].user = calls[j].user => i = j
    /\ \A i, j \in CallIndices({"byidInsert", "byidDelete"}) :
          calls[i].user = calls[j].user => i = j

\* C21: in a pass, every call that belongs to offboarding only (the read of
\* the user, its suspension, a removal from a group) and every decision to
\* offboard comes after the lookup of every tracked group, and after all
\* lookups, creates and updates of users, all addMember calls and all
\* listings of members that the pass makes.
OffboardOps == {"getUser", "suspendUser", "removeMember"}
GroupLoopOps == {"findGroup", "createGroup", "listMembers", "getUserDetails",
                 "findUser", "createUser", "updateUser", "addMember"}

C21_GroupsBeforeOffboarding ==
    /\ \A i \in CallIndices(OffboardOps) :
          /\ \A k \in 1..Len(GWS_GROUPS) :
                \E j \in LookedUp(GWS_GROUPS[k]) : j < i
          /\ \A j \in CallIndices(GroupLoopOps) : j < i
    /\ Offboarded # {} => (pc \in {"sweep", "done"} /\ gi = Len(GWS_GROUPS) + 1)

C21_Witness ==
    /\ pc = "done" /\ ~TEST_MODE /\ ~aborted
    /\ \E i \in CallIndices({"suspendUser"}) : calls[i].ok
    /\ \E i \in CallIndices({"removeMember"}) : calls[i].ok
    /\ \E i \in CallIndices({"createUser"}) : calls[i].ok
    /\ \E i \in CallIndices({"addMember"}) : calls[i].ok

\* C22: in a pass, every removal from a tenant group is the removal of an
\* offboarded record's user from a group whose display name starts with the
\* prefix; every group without the prefix has the members it had when the
\* pass started, the offboarded users among them; and a group with the
\* prefix has lost no member but offboarded users.
NamedWithPrefix(g) ==
    biGroups[g].displayName \in {BI_GROUP_PREFIX \o rest : rest \in PrefixedRests}

OffboardedBiIds == {all_users[u].bi_id : u \in Offboarded}

C22_OffboardingOnlyPrefixedGroups ==
    pc # "idle" =>
        /\ \A i \in CallIndices({"removeMember"}) :
              /\ calls[i].user \in OffboardedBiIds
              /\ NamedWithPrefix(calls[i].group)
        /\ \A g \in DOMAIN start.biGroups :
              IF NamedWithPrefix(g)
              THEN start.biGroups[g].members \ biGroups[g].members \subseteq OffboardedBiIds
              ELSE biGroups[g].members = start.biGroups[g].members

C22_Witness ==
    /\ pc = "done" /\ ~TEST_MODE /\ ~aborted
    /\ \E b \in OffboardedBiIds :
          /\ \E g \in DOMAIN biGroups : ~NamedWithPrefix(g) /\ b \in biGroups[g].members
          /\ \E i \in CallIndices({"removeMember"}) :
                /\ calls[i].ok /\ calls[i].user = b
                /\ biGroups[calls[i].group].members # {}
          /\ \A g \in DOMAIN biGroups : NamedWithPrefix(g) => b \notin biGroups[g].members

\* C23, as stated: a live pass offboards no user who is a member of a
\* tracked Google group, whatever calls fail in it, the lookup or creation
\* of the tenant group and the listing of the members included.
C23_MembersNeverOffboarded ==
    (pc # "idle" /\ ~TEST_MODE) =>
        /\ \A u \in Offboarded : ~InTrackedGroup(u)
        /\ \A i \in CallIndices({"suspendUser", "removeMember"}) :
              ~InTrackedGroup(biUsers[calls[i].user].externalId)

\* C24, as stated: after a passkey query that failed for a user of the
\* tenant who has an active passkey, the pass does not take that user's
\* address out of BYID_Enrolled: the edit that follows the failed query is
\* not a delete that succeeds.
C24_FailedQueryKeepsMembership ==
    \A i \in CallIndices({"getEnrollment"}) :
        (/\ ~calls[i].ok /\ i < Len(calls)
         /\ calls[i].user \in DOMAIN biUsers
         /\ biUsers[calls[i].user].externalId \in passkeys) =>
            ~(calls[i + 1].op = "byidDelete" /\ calls[i + 1].ok)

\* C25, as stated: at the end of a live pass in which every call succeeded,
\* every tenant user whose externalId is the id of a member of a tracked
\* Google group is active exactly when the Google user is not suspended.
C25_ActiveMirrorsSuspended ==
    LivePassDone =>
        \A u \in SourceIds :
            InTrackedGroup(u) =>
                \A b \in AccountsOf(u) : biUsers[b].active = (u \notin suspended)

====
